---- MODULE Spec2Model ----
(***************************************************************************)
(* A model of the Radiance .hdr writers under tools/ (pixel quantizer,     *)
(* per-channel run-length encoder, scanline framing, file assembly) and of *)
(* the static file server in server.py.                                    *)
(*                                                                         *)
(* Cursor positions are 0-based as in the Python source; TLA+ sequences    *)
(* are 1-based, so channel[i] of the source is channel[i + 1] here.        *)
(***************************************************************************)
EXTENDS Integers, Sequences, FiniteSets, TLC

VARIABLES
    channel,    \* encode_rle_channel: the input list
    i,          \* encode_rle_channel: the cursor
    out,        \* encode_rle_channel: the bytearray built so far
    spans,      \* history: one entry per record appended to out
    pc,         \* encode_rle_channel: "loop", "done" (returned) or "raised"
    pixel,      \* float_to_rgbe: the arguments r, g, b
    rgbe,       \* float_to_rgbe: what the call gave (bytes, or the exception)
    env_dir,    \* create_white_hdr.main: whether assets/env is a directory
    file,       \* create_white_hdr.main: the bytes written to white.hdr
    qpc,        \* which of the quantizer's operations has run
    pixels,     \* encode_scanline_rgbe: the row of RGBE quads
    width,      \* encode_scanline_rgbe: the width argument
    scanline,   \* encode_scanline_rgbe: what the call gave
    spc,        \* encode_scanline_rgbe: "start" or "encoded"
    scope,      \* app: the ASGI connection scope
    full_path,  \* app: the resolved path of line 42
    sent,       \* app: the messages handed to send, in order
    hpc         \* app: "start", "done" (returned) or "raised"

rleVars == <<channel, i, out, spans, pc>>

quantVars == <<pixel, rgbe, env_dir, file, qpc>>

scanVars == <<pixels, width, scanline, spc>>

appVars == <<scope, full_path, sent, hpc>>

vars == <<channel, i, out, spans, pc, pixel, rgbe, env_dir, file, qpc,
          pixels, width, scanline, spc, scope, full_path, sent, hpc>>

(***************************************************************************)
(* Bounds of the model.                                                    *)
(***************************************************************************)
\* every channel over SampleBytes of length 0..MaxLen is an input
MaxLen == 11
\* channels built of up to MaxBlocks blocks (constant or alternating) are inputs
MaxBlocks == 2
\* every constant channel of length 1..MaxConstLen is an input
MaxConstLen == 131
\* r, g, b are m * 2^x with sample significands m of up to MantBits bits
MantBits == 9
\* a row is built of up to MaxRowBlocks blocks of equal pixels
MaxRowBlocks == 2
\* a request path has up to MaxPathLen characters
MaxPathLen == 4

(***************************************************************************)
(* Program constants of encode_rle_channel.                                *)
(***************************************************************************)
RunCap == 127
MinRun == 4
LiteralCap == 128
RunFlag == 128

----------------------------------------------------------------------------
(* Inputs *)

SampleBytes == {0, 200}

BlockLens == {1, 2, 3, 4, 127, 128}

Repeat(v, k) == [j \in 1..k |-> v]

Alternate(v, w, k) == [j \in 1..k |-> IF j % 2 = 1 THEN v ELSE w]

Blocks ==
    {Repeat(v, k) : v \in SampleBytes, k \in BlockLens}
    \cup {Alternate(q[1], q[2], k) :
            q \in {r \in SampleBytes \X SampleBytes : r[1] # r[2]}, k \in BlockLens}

RECURSIVE BlockSeqs(_)
BlockSeqs(k) ==
    IF k = 0 THEN {<< >>}
    ELSE LET prev == BlockSeqs(k - 1)
         IN  prev \cup {a \o b : a \in prev, b \in Blocks}

ShortSeqs == UNION {[1..k -> SampleBytes] : k \in 0..MaxLen}

ConstSeqs == {Repeat(v, k) : v \in SampleBytes, k \in 1..MaxConstLen}

ScenarioSeqs == {<<1, 2, 3, 4, 4, 4, 4, 4, 5>>, Repeat(200, 10)}

ChannelInputs == ShortSeqs \cup BlockSeqs(MaxBlocks) \cup ConstSeqs \cup ScenarioSeqs

---------------------------------------------------------------------------------------------------------------------------------------------------
(* Each specification below runs one part of the repository; the variables  *)
(* of the other parts rest at these values.                                 *)

IdleRLE ==
    /\ channel = << >>
    /\ i = 0
    /\ out = << >>
    /\ spans = << >>
    /\ pc = "idle"

IdleQuant ==
    /\ pixel = << >>
    /\ rgbe = << >>
    /\ env_dir = FALSE
    /\ file = << >>
    /\ qpc = "idle"

IdleScan ==
    /\ pixels = << >>
    /\ width = 0
    /\ scanline = << >>
    /\ spc = "idle"

IdleApp ==
    /\ scope = << >>
    /\ full_path = << >>
    /\ sent = << >>
    /\ hpc = "idle"

-----
(* encode_rle_channel *)

IsByte(b) == b \in 0..255

\* the condition of the inner while of lines 31 and 44, for cursor p
RunGoesOn(ch, p, run_len) ==
    p + run_len < Len(ch) /\ run_len < RunCap /\ ch[p + run_len + 1] = ch[p + 1]

\* a plausible slip: the lookahead stops one element short of the end
RunLenAtShort(ch, p) ==
    CHOOSE k \in 1..(Len(ch) - p) :
        /\ ~(p + k < Len(ch) - 1 /\ k < RunCap /\ ch[p + k + 1] = ch[p + 1])
        /\ \A m \in 1..(k - 1) :
              p + m < Len(ch) - 1 /\ m < RunCap /\ ch[p + m + 1] = ch[p + 1]

\* run_len as lines 29-32 (and 42-45) leave it for cursor p < n: it starts at
\* 1 and grows by one while the condition holds, so it ends at the least value
\* at which the condition fails (at the latest n - p, where p + run_len = n)
RunLenAt(ch, p) ==
    CHOOSE k \in 1..(Len(ch) - p) :
        /\ ~RunGoesOn(ch, p, k)
        /\ \A m \in 1..(k - 1) : RunGoesOn(ch, p, m)

\* whether the while of lines 41-50 is left with the cursor at j > start:
\* its condition fails (line 41), a run of MinRun starts at j (lines 46-47), or
\* the increment that made the cursor j reached the cap (lines 48-50)
LiteralStops(ch, start, j) ==
    \/ ~(j < Len(ch))
    \/ (j > start + 1 /\ j - start >= LiteralCap)
    \/ RunLenAt(ch, j) >= MinRun

\* a plausible slip: "> 128" for ">= 128" at line 49
LiteralEndOver(ch, start) ==
    CHOOSE j \in (start + 1)..Len(ch) :
        /\ \/ ~(j < Len(ch))
           \/ (j > start + 1 /\ j - start > LiteralCap)
           \/ RunLenAt(ch, j) >= MinRun
        /\ \A m \in (start + 1)..(j - 1) :
              ~ \/ ~(m < Len(ch))
                \/ (m > start + 1 /\ m - start > LiteralCap)
                \/ RunLenAt(ch, m) >= MinRun

\* a plausible slip: the inner loop breaks at a pair, the outer needs four
LiteralEndPair(ch, start) ==
    CHOOSE j \in (start + 1)..Len(ch) :
        /\ \/ ~(j < Len(ch))
           \/ (j > start + 1 /\ j - start >= LiteralCap)
           \/ RunLenAt(ch, j) >= 2
        /\ \A m \in (start + 1)..(j - 1) :
              ~ \/ ~(m < Len(ch))
                \/ (m > start + 1 /\ m - start >= LiteralCap)
                \/ RunLenAt(ch, m) >= 2

\* a plausible slip: the lookahead of lines 42-47 is missing
LiteralEndGreedy(ch, start) ==
    CHOOSE j \in (start + 1)..Len(ch) :
        /\ \/ ~(j < Len(ch))
           \/ (j > start + 1 /\ j - start >= LiteralCap)
        /\ \A m \in (start + 1)..(j - 1) :
              ~ \/ ~(m < Len(ch))
                \/ (m > start + 1 /\ m - start >= LiteralCap)

\* the cursor the while of lines 41-50 leaves: line 40 makes it start + 1, every
\* iteration that does not break at line 47 adds one, so it is the least
\* j > start at which the loop stops
LiteralEnd(ch, start) ==
    CHOOSE j \in (start + 1)..Len(ch) :
        /\ LiteralStops(ch, start, j)
        /\ \A m \in (start + 1)..(j - 1) : ~LiteralStops(ch, start, m)

\* channel[start:i] of line 53: a Python slice stops at the end of the list
Slice(ch, from, to) ==
    SubSeq(ch, from + 1, IF to < Len(ch) THEN to ELSE Len(ch))

\* bytearray.append and bytearray.extend raise ValueError for an element
\* outside range(256)
AllBytes(bs) == \A k \in 1..Len(bs) : IsByte(bs[k])

\* a plausible slip: the cursor stops on the last byte of the run
EmitRunOverlap ==
    /\ pc = "loop"
    /\ i < Len(channel)
    /\ \E run_len \in {RunLenAt(channel, i)}, run_val \in {channel[i + 1]} :
          /\ run_len >= MinRun
          /\ IF AllBytes(<<RunFlag + run_len, run_val>>)
             THEN /\ out' = out \o <<RunFlag + run_len, run_val>>
                  /\ i' = i + run_len - 1
                  /\ spans' = Append(spans, [kind |-> "run", start |-> i, count |-> run_len])
                  /\ pc' = pc
             ELSE /\ pc' = "raised"
                  /\ UNCHANGED <<out, i, spans>>
    /\ UNCHANGED channel
    /\ UNCHANGED <<quantVars, scanVars, appVars>>

\* lines 29-37: one outer iteration that emits a run record
EmitRun ==
    /\ pc = "loop"
    /\ i < Len(channel)
    /\ \E run_len \in {RunLenAt(channel, i)}, run_val \in {channel[i + 1]} :
          /\ run_len >= MinRun
          /\ IF AllBytes(<<RunFlag + run_len, run_val>>)
             THEN /\ out' = out \o <<RunFlag + run_len, run_val>>
                  /\ i' = i + run_len
                  /\ spans' = Append(spans, [kind |-> "run", start |-> i, count |-> run_len])
                  /\ pc' = pc
             ELSE /\ pc' = "raised"
                  /\ UNCHANGED <<out, i, spans>>
    /\ UNCHANGED channel
    /\ UNCHANGED <<quantVars, scanVars, appVars>>
    /\ UNCHANGED <<quantVars, scanVars, appVars>>

\* lines 29-33 and 39-53: one outer iteration that emits a literal record
EmitLiteral ==
    /\ pc = "loop"
    /\ i < Len(channel)
    /\ RunLenAt(channel, i) < MinRun
    /\ \E start \in {i} :
       \E end \in {LiteralEnd(channel, start)} :
       \E count \in {end - start}, body \in {Slice(channel, start, end)} :
          IF AllBytes(<<count>> \o body)
          THEN /\ out' = (out \o <<count>>) \o body
               /\ i' = end
               /\ spans' = Append(spans, [kind |-> "literal", start |-> start, count |-> count])
               /\ pc' = pc
          ELSE /\ pc' = "raised"
               /\ UNCHANGED <<out, i, spans>>
    /\ UNCHANGED channel
    /\ UNCHANGED <<quantVars, scanVars, appVars>>

\* lines 28 and 54: the loop condition fails and the function returns bytes(out)
Return ==
    /\ pc = "loop"
    /\ ~(i < Len(channel))
    /\ pc' = "done"
    /\ UNCHANGED <<channel, i, out, spans>>
    /\ UNCHANGED <<quantVars, scanVars, appVars>>

InitRLE ==
    /\ channel \in ChannelInputs
    /\ i = 0
    /\ out = << >>
    /\ spans = << >>
    /\ pc = "loop"
    /\ IdleQuant /\ IdleScan /\ IdleApp

NextRLE == EmitRun \/ EmitLiteral \/ Return

SpecRLE == InitRLE /\ [][NextRLE]_vars

FairRLE == SpecRLE /\ WF_vars(NextRLE)

----------------------------------------------------------------------------
(* float_to_rgbe, both variants.                                            *)
(*                                                                          *)
(* A float is modelled exactly as a record [m, x] standing for m * 2^x with *)
(* m a natural number of at most ThresholdBits bits.  For such values every *)
(* float operation of float_to_rgbe is exact: frexp is exact; m * 256.0 / v *)
(* is the power of two 2^(8 - e); x * scale is a scaling by a power of two; *)
(* x * scale + 0.5 is below 257 and either fits a double's 53 bits or is    *)
(* below 0.5 + 2^-35 and truncates to 0 as the exact sum does.              *)

ThresholdBits == 10
\* 1e-32 as a double is T * 2^ThresholdExp with 0.5 <= T < 1, and ThresholdTop
\* is floor(T * 2^ThresholdBits): T * 1024 = 830.767...
ThresholdExp == -106
ThresholdTop == 830

RECURSIVE Pow2(_)
Pow2(k) == IF k <= 0 THEN 1 ELSE 2 * Pow2(k - 1)

RECURSIVE BitLen(_)
BitLen(m) == IF m = 0 THEN 0 ELSE 1 + BitLen(m \div 2)

Float(m, x) == [m |-> m, x |-> x]

\* a < b for a = a.m * 2^a.x and b = b.m * 2^b.x
FloatLess(a, b) ==
    IF b.m = 0 THEN FALSE
    ELSE IF a.m = 0 THEN TRUE
    ELSE LET ea == BitLen(a.m) + a.x
             eb == BitLen(b.m) + b.x
         IN  IF ea # eb THEN ea < eb
             ELSE IF a.x >= b.x THEN a.m * Pow2(a.x - b.x) < b.m
             ELSE a.m < b.m * Pow2(b.x - a.x)

\* max(r, g, b) of line 9: the first of the largest
FloatMax(r, g, b) ==
    LET rg == IF FloatLess(r, g) THEN g ELSE r
    IN  IF FloatLess(rg, b) THEN b ELSE rg

\* v < 1e-32 of line 10
BelowThreshold(v) ==
    IF v.m = 0 THEN TRUE
    ELSE LET e == BitLen(v.m) + v.x
         IN  IF e # ThresholdExp THEN e < ThresholdExp
             ELSE v.m * Pow2(ThresholdBits - BitLen(v.m)) <= ThresholdTop

\* a plausible slip: the exponent of a significand in [1, 2), not [0.5, 1)
FrexpExpOne(v) == BitLen(v.m) + v.x - 1

\* the e of m, e = math.frexp(v) at line 12, v > 0: v = m * 2^e, 0.5 <= m < 1
FrexpExp(v) == BitLen(v.m) + v.x

\* int(x * scale + 0.5) with scale = m * 256.0 / v = 2^(8 - e), lines 13-17
Scaled(x, e) ==
    IF x.m = 0 THEN 0
    ELSE LET s == x.x + 8 - e
         IN  IF s >= 0 THEN x.m * Pow2(s)
             ELSE IF -s > BitLen(x.m) THEN 0
             ELSE (x.m + Pow2(-s - 1)) \div Pow2(-s)

Clamp(n) == IF n < 0 THEN 0 ELSE IF n > 255 THEN 255 ELSE n

Returned(bs) == [raised |-> "none", bytes |-> bs]

Raised(exc) == [raised |-> exc, bytes |-> << >>]

\* bytes([...]) raises ValueError unless every element is in range(256)
Bytes(ns) == IF AllBytes(ns) THEN Returned(ns) ELSE Raised("ValueError")

\* create_sky_floor_hdr.float_to_rgbe
float_to_rgbe(r, g, b) ==
    LET v == FloatMax(r, g, b)
        e == FrexpExp(v)
    IN  IF BelowThreshold(v) THEN Bytes(<<0, 0, 0, 0>>)
        ELSE Bytes(<<Clamp(Scaled(r, e)), Clamp(Scaled(g, e)), Clamp(Scaled(b, e)),
                     Clamp(e + 128)>>)

\* create_white_hdr.float_to_rgbe
white_float_to_rgbe(r, g, b) ==
    LET v == FloatMax(r, g, b)
        e == FrexpExp(v)
    IN  IF BelowThreshold(v) THEN Bytes(<<0, 0, 0, 0>>)
        ELSE Bytes(<<Scaled(r, e), Scaled(g, e), Scaled(b, e), e + 128>>)

\* "#?RADIANCE\nFORMAT=32-bit_rle_rgbe\n\n" in ASCII
HeaderMagic ==
    <<35, 63, 82, 65, 68, 73, 65, 78, 67, 69, 10,
      70, 79, 82, 77, 65, 84, 61, 51, 50, 45, 98, 105, 116, 95, 114, 108, 101, 95,
      114, 103, 98, 101, 10, 10>>

\* create_white_hdr.main's header: the magic and "-Y 1 +X 1\n"
WhiteHeader == HeaderMagic \o <<45, 89, 32, 49, 32, 43, 88, 32, 49, 10>>

One == Float(1, 0)

SampleMantissas ==
    {0, 1, 5, Pow2(MantBits - 1), Pow2(MantBits - 1) + 1, Pow2(MantBits) - 1}

SampleExponents == {-120, -115, -109, -8, 0, 127}

SampleFloats == {Float(m, x) : m \in SampleMantissas, x \in SampleExponents}

\* a call of create_sky_floor_hdr.float_to_rgbe
SkyQuantize ==
    /\ qpc = "start"
    /\ rgbe' = float_to_rgbe(pixel[1], pixel[2], pixel[3])
    /\ qpc' = "sky"
    /\ UNCHANGED <<pixel, env_dir, file>>
    /\ UNCHANGED <<rleVars, scanVars, appVars>>

\* a call of create_white_hdr.float_to_rgbe
WhiteQuantize ==
    /\ qpc = "start"
    /\ rgbe' = white_float_to_rgbe(pixel[1], pixel[2], pixel[3])
    /\ qpc' = "white"
    /\ UNCHANGED <<pixel, env_dir, file>>
    /\ UNCHANGED <<rleVars, scanVars, appVars>>

\* create_white_hdr.main, lines 25-26: assets/env is missing
WhiteMainNoEnv ==
    /\ qpc = "start"
    /\ ~env_dir
    /\ qpc' = "exit"
    /\ UNCHANGED <<pixel, rgbe, env_dir, file>>
    /\ UNCHANGED <<rleVars, scanVars, appVars>>

\* create_white_hdr.main, lines 28-34: quantize (1.0, 1.0, 1.0), then write
\* the header and the pixel
WhiteMain ==
    /\ qpc = "start"
    /\ env_dir
    /\ \E q \in {white_float_to_rgbe(One, One, One)} :
          IF q.raised = "none"
          THEN file' = WhiteHeader \o q.bytes /\ qpc' = "written"
          ELSE file' = file /\ qpc' = "raised"
    /\ UNCHANGED <<pixel, rgbe, env_dir>>
    /\ UNCHANGED <<rleVars, scanVars, appVars>>

InitQuant ==
    /\ pixel \in SampleFloats \X SampleFloats \X SampleFloats
    /\ rgbe = << >>
    /\ env_dir \in BOOLEAN
    /\ file = << >>
    /\ qpc = "start"
    /\ IdleRLE /\ IdleScan /\ IdleApp

NextQuant == SkyQuantize \/ WhiteQuantize \/ WhiteMainNoEnv \/ WhiteMain

SpecQuant == InitQuant /\ [][NextQuant]_vars

----------------------------------------------------------------------------
(* encode_scanline_rgbe *)

\* encode_rle_channel as a function: the records of lines 28-53 from cursor p
\* on, as EmitRun and EmitLiteral append them
RECURSIVE EncodeFrom(_, _)
EncodeFrom(ch, p) ==
    IF ~(p < Len(ch)) THEN << >>
    ELSE IF RunLenAt(ch, p) >= MinRun
    THEN <<RunFlag + RunLenAt(ch, p), ch[p + 1]>> \o EncodeFrom(ch, p + RunLenAt(ch, p))
    ELSE LET end == LiteralEnd(ch, p)
         IN  (<<end - p>> \o Slice(ch, p, end)) \o EncodeFrom(ch, end)

encode_rle_channel(ch) == EncodeFrom(ch, 0)

\* lines 60-63: channels[c] holds pix[c] of every pixel, in order
ChannelOf(pxs, c) == [k \in 1..Len(pxs) |-> pxs[k][c + 1]]

\* line 59's header bytes: (width >> 8) & 0xFF and width & 0xFF
ScanlineHeader(w) == <<2, 2, (w \div 256) % 256, w % 256>>

\* a plausible slip: the channels leave in the order B, G, R, E
encode_scanline_bgre(pxs, w) ==
    Bytes(ScanlineHeader(w)
          \o encode_rle_channel(ChannelOf(pxs, 2))
          \o encode_rle_channel(ChannelOf(pxs, 1))
          \o encode_rle_channel(ChannelOf(pxs, 0))
          \o encode_rle_channel(ChannelOf(pxs, 3)))

\* lines 57-66
encode_scanline_rgbe(pxs, w) ==
    Bytes(ScanlineHeader(w)
          \o encode_rle_channel(ChannelOf(pxs, 0))
          \o encode_rle_channel(ChannelOf(pxs, 1))
          \o encode_rle_channel(ChannelOf(pxs, 2))
          \o encode_rle_channel(ChannelOf(pxs, 3)))

SamplePixels == {<<128, 128, 128, 129>>, <<0, 0, 0, 0>>, <<38, 64, 154, 128>>}

RowBlockLens == {1, 3, 4, 8, 127, 200}

RowBlocks == {Repeat(px, k) : px \in SamplePixels, k \in RowBlockLens}

RECURSIVE RowSeqs(_)
RowSeqs(k) ==
    IF k = 0 THEN {<< >>}
    ELSE LET prev == RowSeqs(k - 1)
         IN  prev \cup {a \o b : a \in prev, b \in RowBlocks}

\* create_sky_floor_hdr.main, line 97: the call, for a row of lines 84-96
EncodeScanline ==
    /\ spc = "start"
    /\ scanline' = encode_scanline_rgbe(pixels, width)
    /\ spc' = "encoded"
    /\ UNCHANGED <<pixels, width>>
    /\ UNCHANGED <<rleVars, quantVars, appVars>>

\* lines 84-96 append one quad per x in range(width), so the row handed to
\* encode_scanline_rgbe has exactly width pixels
InitScan ==
    /\ pixels \in RowSeqs(MaxRowBlocks) \ {<< >>}
    /\ width = Len(pixels)
    /\ scanline = << >>
    /\ spc = "start"
    /\ IdleRLE /\ IdleQuant /\ IdleApp

NextScan == EncodeScanline

SpecScan == InitScan /\ [][NextScan]_vars

----------------------------------------------------------------------------
(* server.py                                                                *)
(*                                                                          *)
(* A path string is a sequence of characters; a file or directory name is   *)
(* one character, "index.html" too, and "%2E", "%2F" are the percent        *)
(* escapes of "." and "/".  A resolved path is the sequence of its names:   *)
(* << >> is "/" and <<"srv", "f">> is "/srv/f".                             *)

\* line 7: the directory that holds server.py
ROOT == <<"srv">>

\* the file system the server runs on: ROOT holds two readable files, a file
\* the server's user may not read, and a symbolic link that leaves ROOT; a
\* file lies outside ROOT.  It does not change while a request is handled.
FileType(path) ==
    CASE path = << >> -> "dir"
      [] path = <<"srv">> -> "dir"
      [] path = <<"srv", "index.html">> -> "file"
      [] path = <<"srv", "f">> -> "file"
      [] path = <<"srv", "u">> -> "file"
      [] path = <<"srv", "l">> -> "link"
      [] path = <<"s">> -> "file"
      [] OTHER -> "none"

LinkTarget(path) == IF path = <<"srv", "l">> THEN <<"s">> ELSE path

\* whether Path.read_bytes() returns (it raises PermissionError otherwise)
Readable(path) == path # <<"srv", "u">>

FileBytes(path) ==
    CASE path = <<"srv", "index.html">> -> "index"
      [] path = <<"srv", "f">> -> "public"
      [] path = <<"srv", "u">> -> "private"
      [] path = <<"s">> -> "secret"
      [] OTHER -> ""

\* urllib.parse.unquote on the characters of the model
Unquote(str) ==
    [k \in 1..Len(str) |->
        CASE str[k] = "%2E" -> "."
          [] str[k] = "%2F" -> "/"
          [] OTHER -> str[k]]

\* str.lstrip("/")
RECURSIVE LStripSlash(_)
LStripSlash(str) ==
    IF str # << >> /\ Head(str) = "/" THEN LStripSlash(Tail(str)) ELSE str

\* the "/"-separated parts of str
RECURSIVE SplitSlash(_, _)
SplitSlash(str, part) ==
    IF str = << >> THEN <<part>>
    ELSE IF Head(str) = "/" THEN <<part>> \o SplitSlash(Tail(str), << >>)
    ELSE SplitSlash(Tail(str), Append(part, Head(str)))

\* a part that is one name of the model is that name; any other keeps its
\* characters, and names no entry of the file system
NameOf(part) == IF Len(part) = 1 THEN part[1] ELSE part

\* Path.resolve() from the resolved directory cur over the remaining parts:
\* empty parts and "." are dropped, ".." goes to the parent ("/" is its own),
\* a symbolic link is replaced by its target
RECURSIVE Walk(_, _)
Walk(cur, parts) ==
    IF parts = << >> THEN cur
    ELSE LET part == Head(parts)
             next == Append(cur, NameOf(part))
         IN  IF part = << >> \/ part = <<".">> THEN Walk(cur, Tail(parts))
             ELSE IF part = <<".", ".">>
             THEN Walk(IF cur = << >> THEN cur ELSE SubSeq(cur, 1, Len(cur) - 1), Tail(parts))
             ELSE IF FileType(next) = "link" THEN Walk(LinkTarget(next), Tail(parts))
             ELSE Walk(next, Tail(parts))

\* lines 38-40
RawPath(path) ==
    IF Unquote(path) = <<"/">> THEN <<"/", "index.html">> ELSE Unquote(path)

\* line 42: (ROOT / raw_path.lstrip("/")).resolve()
FullPath(raw_path) == Walk(ROOT, SplitSlash(LStripSlash(raw_path), << >>))

\* Path.parents: the proper ancestors
Parents(path) == {SubSeq(path, 1, k) : k \in 0..(Len(path) - 1)}

\* Path.is_file()
IsFile(path) == FileType(path) = "file"

\* a plausible slip: the test that the file lies under ROOT is missing
NotFoundUnconfined(full) == ~IsFile(full)

\* line 43: "and" binds tighter than "or"
NotFound(full) ==
    ~IsFile(full) \/ (ROOT \notin Parents(full) /\ full # ROOT)

\* line 55: mimetypes.guess_type on the file's name
ContentType(path) ==
    IF path[Len(path)] = "index.html" THEN "text/html" ELSE "application/octet-stream"

ResponseStart(status, content_type) ==
    [type |-> "http.response.start", status |-> status, content_type |-> content_type,
     body |-> ""]

ResponseBody(body) ==
    [type |-> "http.response.body", status |-> 0, content_type |-> "", body |-> body]

Methods == {"GET", "HEAD", "POST"}

PathChars == {"/", ".", "%2E", "%2F", "f", "u", "s", "l"}

RequestPaths == UNION {[1..k -> PathChars] : k \in 0..MaxPathLen}

\* lines 22-23: not an HTTP connection
AppIgnore ==
    /\ hpc = "start"
    /\ scope.type # "http"
    /\ hpc' = "done"
    /\ UNCHANGED <<scope, full_path, sent>>
    /\ UNCHANGED <<rleVars, quantVars, scanVars>>

\* lines 25-36
AppMethodNotAllowed ==
    /\ hpc = "start"
    /\ scope.type = "http"
    /\ scope.method \notin {"GET", "HEAD"}
    /\ sent' = sent \o <<ResponseStart(405, "text/plain; charset=utf-8"),
                         ResponseBody("Method not allowed.")>>
    /\ hpc' = "done"
    /\ UNCHANGED <<scope, full_path>>
    /\ UNCHANGED <<rleVars, quantVars, scanVars>>

\* lines 38-53
AppNotFound ==
    /\ hpc = "start"
    /\ scope.type = "http"
    /\ scope.method \in {"GET", "HEAD"}
    /\ \E full \in {FullPath(RawPath(scope.path))} :
          /\ NotFound(full)
          /\ full_path' = full
    /\ sent' = sent \o <<ResponseStart(404, "text/plain; charset=utf-8"),
                         ResponseBody("Not found.")>>
    /\ hpc' = "done"
    /\ UNCHANGED scope
    /\ UNCHANGED <<rleVars, quantVars, scanVars>>

\* lines 38-43 and 55-63: read_bytes raises, and app with it, before any send
AppReadFails ==
    /\ hpc = "start"
    /\ scope.type = "http"
    /\ scope.method \in {"GET", "HEAD"}
    /\ \E full \in {FullPath(RawPath(scope.path))} :
          /\ ~NotFound(full)
          /\ scope.method = "GET" /\ ~Readable(full)
          /\ full_path' = full
    /\ hpc' = "raised"
    /\ UNCHANGED <<scope, sent>>
    /\ UNCHANGED <<rleVars, quantVars, scanVars>>

\* lines 38-43 and 55-73
AppServe ==
    /\ hpc = "start"
    /\ scope.type = "http"
    /\ scope.method \in {"GET", "HEAD"}
    /\ \E full \in {FullPath(RawPath(scope.path))} :
          /\ ~NotFound(full)
          /\ scope.method = "GET" => Readable(full)
          /\ full_path' = full
          /\ sent' = sent \o <<ResponseStart(200, ContentType(full)),
                               ResponseBody(IF scope.method = "GET"
                                            THEN FileBytes(full) ELSE "")>>
    /\ hpc' = "done"
    /\ UNCHANGED scope
    /\ UNCHANGED <<rleVars, quantVars, scanVars>>

InitApp ==
    /\ scope \in [type : {"http", "lifespan"}, method : Methods, path : RequestPaths]
    /\ scope.type = "lifespan" => (scope.method = "GET" /\ scope.path = <<"/">>)
    /\ full_path = << >>
    /\ sent = << >>
    /\ hpc = "start"
    /\ IdleRLE /\ IdleQuant /\ IdleScan

NextApp == AppIgnore \/ AppMethodNotAllowed \/ AppNotFound \/ AppReadFails \/ AppServe

SpecApp == InitApp /\ [][NextApp]_vars

----------------------------------------------------------------------------
(* The Radiance record decoder the properties measure the encoder against: a    *)
(* count byte above 128 repeats the next byte count - 128 times, a count    *)
(* byte of at most 128 copies the next count bytes.  ok is FALSE when the   *)
(* bytes end inside a record or a record is empty.                          *)

RECURSIVE DecodeFrom(_, _)
DecodeFrom(bs, pos) ==
    IF pos > Len(bs) THEN [ok |-> TRUE, data |-> << >>]
    ELSE IF bs[pos] > 128
    THEN IF pos + 1 > Len(bs) THEN [ok |-> FALSE, data |-> << >>]
         ELSE LET rest == DecodeFrom(bs, pos + 2)
              IN  [ok |-> rest.ok, data |-> Repeat(bs[pos + 1], bs[pos] - 128) \o rest.data]
    ELSE IF bs[pos] = 0 \/ pos + bs[pos] > Len(bs) THEN [ok |-> FALSE, data |-> << >>]
         ELSE LET rest == DecodeFrom(bs, pos + 1 + bs[pos])
              IN  [ok |-> rest.ok, data |-> SubSeq(bs, pos + 1, pos + bs[pos]) \o rest.data]

Decode(bs) == DecodeFrom(bs, 1)

\* every record from pos on is a run record with count byte 132..255 and one
\* value byte, or a literal record with count byte 1..128 and that many bytes
RECURSIVE RecordsFrom(_, _)
RecordsFrom(bs, pos) ==
    IF pos > Len(bs) THEN TRUE
    ELSE IF bs[pos] \in 132..255
    THEN pos + 1 <= Len(bs) /\ IsByte(bs[pos + 1]) /\ RecordsFrom(bs, pos + 2)
    ELSE /\ bs[pos] \in 1..128
         /\ pos + bs[pos] <= Len(bs)
         /\ RecordsFrom(bs, pos + 1 + bs[pos])

\* four equal bytes start at position p (0-based)
FourEqualAt(ch, p) ==
    /\ p + 3 < Len(ch)
    /\ ch[p + 2] = ch[p + 1] /\ ch[p + 3] = ch[p + 1] /\ ch[p + 4] = ch[p + 1]

IsConstant(ch) == \A k \in 1..Len(ch) : ch[k] = ch[1]

ScenarioC == <<1, 2, 3, 4, 4, 4, 4, 4, 5>>

----------------------------------------------------------------------------
(* Properties of encode_rle_channel *)

\* C1: for every channel of length at least 1, encode_rle_channel returns, and
\* the Radiance record decoder turns what it returns back into the channel,
\* using up every byte.
C1_Decodable ==
    Len(channel) >= 1 =>
        /\ pc # "raised"
        /\ pc = "done" => Decode(out) = [ok |-> TRUE, data |-> channel]

C1_Witness ==
    /\ pc = "done"
    /\ Len(channel) > LiteralCap + RunCap
    /\ \E a, b \in 1..Len(spans) : spans[a].kind = "run" /\ spans[b].kind = "literal"
    /\ Decode(out).data = channel

\* C2: the bytes returned for a channel of length n >= 1 number at most
\* n + ceil(n / 128).
C2_Compact ==
    (pc = "done" /\ Len(channel) >= 1) =>
        Len(out) <= Len(channel) + (Len(channel) + 127) \div 128

C2_Witness ==
    /\ pc = "done"
    /\ Len(channel) > 128
    /\ Len(out) = Len(channel) + (Len(channel) + 127) \div 128

\* C7: no literal record covers a position at which four equal bytes start,
\* every cursor position at which four equal bytes start is the start of a run
\* record, and [1,2,3,4,4,4,4,4,5] encodes to [3,1,2,3,133,4,1,5].
C7_TieBreak ==
    /\ \A k \in 1..Len(spans) :
          /\ spans[k].kind = "literal" =>
                \A p \in spans[k].start..(spans[k].start + spans[k].count - 1) :
                    ~FourEqualAt(channel, p)
          /\ FourEqualAt(channel, spans[k].start) => spans[k].kind = "run"
    /\ (pc = "done" /\ channel = ScenarioC) => out = <<3, 1, 2, 3, 133, 4, 1, 5>>

C7_Witness ==
    /\ pc = "done"
    /\ channel = ScenarioC
    /\ Len(spans) = 3
    /\ spans[1].kind = "literal" /\ spans[2].kind = "run"
    /\ spans[2].start = spans[1].start + spans[1].count

\* C8: the output is a concatenation of run records (count byte 132..255, one
\* value byte) and literal records (count byte 1..128, that many bytes); a run
\* record of fewer than 127 covers the whole run ahead of the cursor; a channel
\* of k equal bytes v, 4 <= k <= 127, encodes to [128 + k, v].
C8_Records ==
    /\ RecordsFrom(out, 1)
    /\ \A k \in 1..Len(spans) :
          (spans[k].kind = "run" /\ spans[k].count < 127) =>
              \/ spans[k].start + spans[k].count = Len(channel)
              \/ channel[spans[k].start + spans[k].count + 1] # channel[spans[k].start + 1]
    /\ (pc = "done" /\ Len(channel) \in 4..127 /\ IsConstant(channel)) =>
          out = <<128 + Len(channel), channel[1]>>

C8_Witness ==
    /\ pc = "done"
    /\ channel = Repeat(200, 10)
    /\ out = <<138, 200>>

\* the records consumed so far tile positions 0 .. i - 1, each at least one long
SpansTile ==
    /\ \A k \in 1..Len(spans) :
          /\ spans[k].count >= 1
          /\ spans[k].start = (IF k = 1 THEN 0 ELSE spans[k - 1].start + spans[k - 1].count)
    /\ i = (IF spans = << >> THEN 0 ELSE spans[Len(spans)].start + spans[Len(spans)].count)
    /\ i <= Len(channel)

\* C9: the cursor never decreases and never passes n, every outer iteration
\* advances it by at least one, the records tile the input, the encoder
\* returns with i = n, and the empty channel gives the empty output.
C9_Progress ==
    /\ []SpansTile
    /\ [][i' >= i /\ i' <= Len(channel) /\ (pc' = "loop" => i' >= i + 1)]_vars
    /\ [](pc = "done" => (i = Len(channel) /\ (channel = << >> => out = << >>)))
    /\ <>(pc = "done")

C9_Witness ==
    /\ pc = "done"
    /\ i = Len(channel)
    /\ Len(spans) >= 4

----------------------------------------------------------------------------
(* Properties of float_to_rgbe and create_white_hdr.main *)

\* the value the spec's rule gives a channel: round(channel * scale), clamped
RoundedClamped(x, v) == Clamp(Scaled(x, FrexpExp(v)))

\* C3: both float_to_rgbe variants return four bytes for every non-negative
\* finite (r, g, b) and never raise: the mantissa bytes are the rounded scaled
\* channels clamped to 0..255 and the exponent byte is clamp(e + 128, 0, 255).
C3_Total ==
    qpc \in {"sky", "white"} =>
        LET v == FloatMax(pixel[1], pixel[2], pixel[3])
        IN  /\ rgbe.raised = "none"
            /\ Len(rgbe.bytes) = 4
            /\ ~BelowThreshold(v) =>
                  /\ \A c \in 1..3 : rgbe.bytes[c] = RoundedClamped(pixel[c], v)
                  /\ rgbe.bytes[4] = Clamp(FrexpExp(v) + 128)

\* "#?RADIANCE\nFORMAT=32-bit_rle_rgbe\n\n-Y 1 +X 1\n" in ASCII
AsciiHeader1x1 ==
    <<35, 63, 82, 65, 68, 73, 65, 78, 67, 69, 10,
      70, 79, 82, 77, 65, 84, 61, 51, 50, 45, 98, 105, 116, 95, 114, 108, 101, 95,
      114, 103, 98, 101, 10, 10,
      45, 89, 32, 49, 32, 43, 88, 32, 49, 10>>

\* C4 as stated: the 1x1 image of pixel (1.0, 1.0, 1.0) is written as the
\* header for height 1 and width 1 followed by [255, 255, 255, 128].
C4_ScenarioA ==
    qpc = "written" => file = AsciiHeader1x1 \o <<255, 255, 255, 128>>

\* C4 as amended: the 1x1 image of pixel (1.0, 1.0, 1.0) is written, without an
\* exception, as the header for height 1 and width 1 followed by
\* [128, 128, 128, 129].
C4_ScenarioA_Amended ==
    /\ qpc # "raised"
    /\ qpc = "written" => file = AsciiHeader1x1 \o <<128, 128, 128, 129>>

C4_Witness ==
    /\ qpc = "written"
    /\ Len(file) = Len(AsciiHeader1x1) + 4

----------------------------------------------------------------------------
(* Properties of encode_scanline_rgbe *)

\* the records from pos on that make up the next need bytes of a channel:
\* ok is FALSE when they end early or overshoot, next is the position after them
RECURSIVE DecodeSection(_, _, _)
DecodeSection(bs, pos, need) ==
    IF need = 0 THEN [ok |-> TRUE, data |-> << >>, next |-> pos]
    ELSE IF pos > Len(bs) THEN [ok |-> FALSE, data |-> << >>, next |-> pos]
    ELSE IF bs[pos] > 128
    THEN IF pos + 1 > Len(bs) \/ bs[pos] - 128 > need
         THEN [ok |-> FALSE, data |-> << >>, next |-> pos]
         ELSE LET rest == DecodeSection(bs, pos + 2, need - (bs[pos] - 128))
              IN  [ok |-> rest.ok, next |-> rest.next,
                   data |-> Repeat(bs[pos + 1], bs[pos] - 128) \o rest.data]
    ELSE IF bs[pos] = 0 \/ pos + bs[pos] > Len(bs) \/ bs[pos] > need
         THEN [ok |-> FALSE, data |-> << >>, next |-> pos]
         ELSE LET rest == DecodeSection(bs, pos + 1 + bs[pos], need - bs[pos])
              IN  [ok |-> rest.ok, next |-> rest.next,
                   data |-> SubSeq(bs, pos + 1, pos + bs[pos]) \o rest.data]

\* the scanline bs is the four-byte header for w followed by four sections, in
\* the order R, G, B, E, that decode to the declared number of bytes each, are
\* the channels of pxs, and leave no byte over
FramedAs(bs, pxs, w) ==
    /\ Len(bs) >= 4
    /\ SubSeq(bs, 1, 4) = <<2, 2, (w \div 256) % 256, w % 256>>
    /\ LET declared == bs[3] * 256 + bs[4]
           r == DecodeSection(bs, 5, declared)
           g == DecodeSection(bs, r.next, declared)
           b == DecodeSection(bs, g.next, declared)
           e == DecodeSection(bs, b.next, declared)
       IN  /\ r.ok /\ g.ok /\ b.ok /\ e.ok
           /\ e.next = Len(bs) + 1
           /\ declared = Len(pxs)
           /\ r.data = [k \in 1..Len(pxs) |-> pxs[k][1]]
           /\ g.data = [k \in 1..Len(pxs) |-> pxs[k][2]]
           /\ b.data = [k \in 1..Len(pxs) |-> pxs[k][3]]
           /\ e.data = [k \in 1..Len(pxs) |-> pxs[k][4]]

C6_UnsupportedWidth ==
    (spc = "encoded" /\ (width < 8 \/ width > 32767)) =>
        /\ scanline.raised = "UnsupportedWidth"
        /\ scanline.bytes = << >>

----------------------------------------------------------------------------
(* Properties of server.app *)

Status == sent[1].status

\* path names an entry below ROOT
UnderRoot(path) == Len(path) > Len(ROOT) /\ SubSeq(path, 1, Len(ROOT)) = ROOT

\* a well-formed answer: exactly one http.response.start and then
\* exactly one http.response.body; the status is 200 only for GET or HEAD of a
\* resolved path that is a regular file with ROOT among its parents (and then
\* a GET's body is that file's bytes); GET or HEAD of a resolved path that is
\* not a file, or is a file outside ROOT, gets 404; any other method gets 405
Answered ==
    /\ Len(sent) = 2
    /\ sent[1].type = "http.response.start"
    /\ sent[2].type = "http.response.body"
    /\ Status = 200 =>
          /\ scope.method \in {"GET", "HEAD"}
          /\ FileType(full_path) = "file"
          /\ UnderRoot(full_path)
          /\ scope.method = "GET" => sent[2].body \in {"index", "public"}
    /\ (scope.method \in {"GET", "HEAD"}
          /\ (FileType(full_path) # "file" \/ ~UnderRoot(full_path))) => Status = 404
    /\ scope.method \notin {"GET", "HEAD"} => Status = 405

\* C10 as stated: every HTTP request app handles is answered as above, in
\* every case with exactly one http.response.start followed by exactly one
\* http.response.body.
C10_Confined ==
    (hpc \in {"done", "raised"} /\ scope.type = "http") => Answered

\* C10 as amended: every HTTP request app returns from is answered as above;
\* app raises only for a GET of a regular file under ROOT that cannot be read,
\* and then it has sent nothing.
C10_Confined_Amended ==
    /\ (hpc = "done" /\ scope.type = "http") => Answered
    /\ hpc = "raised" =>
          /\ sent = << >>
          /\ scope.type = "http" /\ scope.method = "GET"
          /\ FileType(full_path) = "file" /\ UnderRoot(full_path)

\* a GET that reaches the file outside ROOT, by ".." or by the link, gets 404
C10_Witness ==
    /\ hpc = "done"
    /\ scope.type = "http"
    /\ scope.method = "GET"
    /\ full_path = <<"s">>
    /\ Status = 404

====
